---- MODULE Spec2Model ----
(***************************************************************************)
(* Model of beancount.ops.balance.check(): the balance-assertion pass.     *)
(* Account names are sequences of one-character strings, so that           *)
(* str.startswith and the ':'-split of realization are computed on the     *)
(* characters.  Numbers are decimals scaled by 1000 (exact, as Decimal     *)
(* arithmetic is exact).                                                   *)
(***************************************************************************)
EXTENDS Integers, Sequences, FiniteSets, TLC

VARIABLES entries, pc, idx, real_root, new_entries, check_errors

vars == <<entries, pc, idx, real_root, new_entries, check_errors>>

\* ------------------------------------------------------------------ bounds
\* a ledger has at most MaxLen entries and at most MaxPostings postings in all
MaxLen == 3
MaxPostings == 2

\* ------------------------------------------------------------- primitives
None == <<>>
Some(x) == <<x>>

\* D('.015') in thousandths
CHECK_PRECISION == 15

Amount(number, currency) == [number |-> number, currency |-> currency]

Posting(account, position) == [account |-> account, position |-> position]

Transaction(fileloc, date, postings) ==
  [type |-> "Transaction", fileloc |-> fileloc, date |-> date, postings |-> postings]

Balance(fileloc, date, account, amount, diff_amount) ==
  [type |-> "Balance", fileloc |-> fileloc, date |-> date, account |-> account,
   amount |-> amount, diff_amount |-> diff_amount]

Open(fileloc, date, account) ==
  [type |-> "Open", fileloc |-> fileloc, date |-> date, account |-> account]

BalanceError(fileloc, message, entry) ==
  [fileloc |-> fileloc, message |-> message, entry |-> entry]

abs(n) == IF n < 0 THEN -n ELSE n

\* str.startswith on character sequences
startswith(s, prefix) ==
  /\ Len(prefix) <= Len(s)
  /\ SubSeq(s, 1, Len(prefix)) = prefix

\* str.split(':') : the components of an account name
RECURSIVE split(_)
split(s) ==
  IF \E k \in 1..Len(s) : s[k] = ":"
  THEN LET k == CHOOSE j \in 1..Len(s) : s[j] = ":" /\ \A m \in 1..(j - 1) : s[m] # ":"
       IN  <<SubSeq(s, 1, k - 1)>> \o split(SubSeq(s, k + 1, Len(s)))
  ELSE <<s>>

\* ---------------------------------------------------------------- Inventory
Inventory == <<>>

add_position(inv, position) ==
  LET c == position.currency
  IN  IF c \in DOMAIN inv
      THEN [inv EXCEPT ![c] = @ + position.number]
      ELSE [k \in DOMAIN inv \cup {c} |-> IF k = c THEN position.number ELSE inv[k]]

\* Inventory.__iadd__ : add every position of the other inventory
inventory_iadd(inv, other) ==
  [k \in DOMAIN inv \cup DOMAIN other |->
     (IF k \in DOMAIN inv THEN inv[k] ELSE 0) + (IF k \in DOMAIN other THEN other[k] ELSE 0)]

get_amount(inv, currency) ==
  Amount(IF currency \in DOMAIN inv THEN inv[currency] ELSE 0, currency)

amount_sub(amount1, amount2) ==
  Amount(amount1.number - amount2.number, amount1.currency)

\* ------------------------------------------------------------- realization
\* The hierarchy is a function from node paths (sequences of components) to
\* the node's own inventory; the root has the empty path.
RealAccount == (<<>> :> Inventory)

get_or_create(root, account) ==
  LET path  == split(account)
      nodes == {SubSeq(path, 1, n) : n \in 0..Len(path)}
  IN  [p \in DOMAIN root \cup nodes |-> IF p \in DOMAIN root THEN root[p] ELSE Inventory]

get(root, account) ==
  IF split(account) \in DOMAIN root THEN Some(split(account)) ELSE None

\* iter_children(real_account, False): the node and all the nodes below it
iter_children(root, path) ==
  {q \in DOMAIN root : Len(path) <= Len(q) /\ SubSeq(q, 1, Len(path)) = path}

RECURSIVE sum_balances(_, _)
sum_balances(root, nodes) ==
  IF nodes = {} THEN Inventory
  ELSE LET q == CHOOSE n \in nodes : TRUE
       IN  inventory_iadd(sum_balances(root, nodes \ {q}), root[q])

\* ------------------------------------------------------------------ getters
get_accounts(es) ==
  UNION {IF es[i].type = "Transaction"
         THEN {es[i].postings[j].account : j \in 1..Len(es[i].postings)}
         ELSE {es[i].account} : i \in 1..Len(es)}

\* -------------------------------------------------------------------- check
asserted_accounts(es) == {es[i].account : i \in {j \in 1..Len(es) : es[j].type = "Balance"}}

\* variant: only the accounts below an asserted account are selected
is_selected_ChildrenOnly(account, asserted) ==
  \E asserted_account \in asserted :
    account # asserted_account /\ startswith(account, asserted_account)

\* the condition of lines 58-60
is_selected(account, asserted) ==
  \/ account \in asserted
  \/ \E asserted_account \in asserted : startswith(account, asserted_account)

RECURSIVE create_all(_, _)
create_all(root, accounts) ==
  IF accounts = {} THEN root
  ELSE LET a == CHOOSE x \in accounts : TRUE
       IN  create_all(get_or_create(root, a), accounts \ {a})

\* lines 46-61: the hierarchy after Selection
selection(es) ==
  create_all(RealAccount,
             {a \in get_accounts(es) : is_selected(a, asserted_accounts(es))})

\* lines 66-73: apply the postings of one transaction, in order
RECURSIVE apply_postings(_, _)
apply_postings(root, postings) ==
  IF postings = <<>> THEN root
  ELSE LET posting      == Head(postings)
           real_account == get(root, posting.account)
           next == IF real_account # None
                   THEN [root EXCEPT ![real_account[1]] = add_position(@, posting.position)]
                   ELSE root
       IN  apply_postings(next, Tail(postings))

\* variant: the node's own inventory, without the nodes below it
balance_amount_OwnOnly(root, entry) ==
  get_amount(root[get(root, entry.account)[1]], entry.amount.currency)

\* the account name of a node path
RECURSIVE join(_)
join(path) ==
  IF Len(path) <= 1 THEN (IF path = <<>> THEN <<>> ELSE path[1])
  ELSE path[1] \o <<":">> \o join(Tail(path))

\* variant: every node whose name starts with the asserted name
balance_amount_ByPrefix(root, entry) ==
  get_amount(sum_balances(root, {q \in DOMAIN root \ {<<>>} : startswith(join(q), entry.account)}),
             entry.amount.currency)

RECURSIVE total(_, _)
total(inv, currencies) ==
  IF currencies = {} THEN 0
  ELSE LET c == CHOOSE x \in currencies : TRUE
       IN  inv[c] + total(inv, currencies \ {c})

\* variant: the units of every currency of the subtree
balance_amount_AnyCurrency(root, entry) ==
  LET inv == sum_balances(root, iter_children(root, get(root, entry.account)[1]))
  IN  Amount(total(inv, DOMAIN inv), entry.amount.currency)

\* lines 85-90
balance_amount(root, entry) ==
  get_amount(sum_balances(root, iter_children(root, get(root, entry.account)[1])),
             entry.amount.currency)

\* line 93
diff_amount(root, entry) == amount_sub(balance_amount(root, entry), entry.amount)

\* variant: the tolerance itself already fails
check_failed_Inclusive(diff) == abs(diff.number) >= CHECK_PRECISION

\* line 94
check_failed(diff) == abs(diff.number) > CHECK_PRECISION

\* lines 97-101: the arguments of the format string, by the slot they fill
message(root, entry) ==
  [account     |-> entry.account,
   expected    |-> balance_amount(root, entry),
   accumulated |-> entry.amount,
   difference  |-> diff_amount(root, entry),
   label       |-> IF diff_amount(root, entry).number # 0 THEN "too much" ELSE "too little"]

\* variant: the copy carries the computed balance as its amount
failing_entry_WrongAmount(root, entry) ==
  Balance(entry.fileloc, entry.date, entry.account, balance_amount(root, entry),
          Some(diff_amount(root, entry)))

\* lines 109-110
failing_entry(root, entry) ==
  Balance(entry.fileloc, entry.date, entry.account, entry.amount,
          Some(diff_amount(root, entry)))

\* variant: the error references the annotated copy
error_of_Copy(root, entry) ==
  BalanceError(entry.fileloc, message(root, entry), failing_entry(root, entry))

\* lines 95-102
error_of(root, entry) == BalanceError(entry.fileloc, message(root, entry), entry)

\* variant: every assertion is replaced by an annotated copy
checked_entry_Always(root, entry) == failing_entry(root, entry)

\* lines 94-112: the entry appended for a Balance directive
checked_entry(root, entry) ==
  IF check_failed(diff_amount(root, entry)) THEN failing_entry(root, entry) ELSE entry

\* lines 94-102: the errors after a Balance directive
checked_errors(root, errors, entry) ==
  IF check_failed(diff_amount(root, entry))
  THEN Append(errors, error_of(root, entry))
  ELSE errors

\* lines 63-114 as a function: the loop from entry i on; raised is the
\* AssertionError of line 80
RECURSIVE replay(_, _, _, _, _)
replay(es, i, root, out, errors) ==
  IF i > Len(es) THEN [new_entries |-> out, check_errors |-> errors, raised |-> FALSE]
  ELSE LET entry == es[i]
       IN  IF entry.type = "Transaction"
           THEN replay(es, i + 1, apply_postings(root, entry.postings),
                       Append(out, entry), errors)
           ELSE IF entry.type = "Balance"
           THEN IF get(root, entry.account) = None
                THEN [new_entries |-> out, check_errors |-> errors, raised |-> TRUE]
                ELSE replay(es, i + 1, root, Append(out, checked_entry(root, entry)),
                            checked_errors(root, errors, entry))
           ELSE replay(es, i + 1, root, Append(out, entry), errors)

\* lines 23-114
check(es) == replay(es, 1, selection(es), <<>>, <<>>)

\* ------------------------------------------------------------------ inputs
Acct_A   == <<"A">>
Acct_AB  == <<"A", ":", "B">>
Acct_AB2 == <<"A", ":", "B", "2">>
Acct_ABC == <<"A", ":", "B", ":", "C">>

RECURSIVE SeqsUpTo(_, _)
SeqsUpTo(S, n) ==
  IF n = 0 THEN {<<>>}
  ELSE LET shorter == SeqsUpTo(S, n - 1)
       IN  shorter \cup {Append(s, x) : s \in {t \in shorter : Len(t) = n - 1}, x \in S}

\* directives without location and date; Entry() numbers them
TransactionsOf(postings, k) ==
  {[type |-> "Transaction", postings |-> ps] : ps \in SeqsUpTo(postings, k)}

BalancesOf(accounts, amounts) ==
  {[type |-> "Balance", account |-> a, amount |-> m] : a \in accounts, m \in amounts}

OpensOf(accounts) == {[type |-> "Open", account |-> a] : a \in accounts}

\* the entry a directive becomes at position i of the ledger
Entry(d, i) ==
  CASE d.type = "Transaction" -> Transaction(i, i, d.postings)
    [] d.type = "Balance"     -> Balance(i, i, d.account, d.amount, None)
    [] OTHER                  -> Open(i, i, d.account)

RECURSIVE PostingCount(_)
PostingCount(es) ==
  IF es = <<>> THEN 0
  ELSE (IF Head(es).type = "Transaction" THEN Len(Head(es).postings) ELSE 0)
       + PostingCount(Tail(es))

\* the account tree: every relation between accounts, one currency
TreePostings ==
  {Posting(a, Amount(16, "USD")) : a \in {Acct_A, Acct_AB, Acct_AB2, Acct_ABC}}
TreeOthers ==
  BalancesOf({Acct_A, Acct_AB, Acct_AB2, Acct_ABC}, {Amount(16, "USD")})
    \cup OpensOf({Acct_ABC})

\* the tolerance: amounts around 0.015 on both sides
TolerancePostings == {Posting(Acct_AB, Amount(n, "USD")) : n \in {15, 16, -16}}
ToleranceOthers ==
  BalancesOf({Acct_AB}, {Amount(0, "USD"), Amount(31, "USD")}) \cup OpensOf({Acct_AB})

\* two currencies in one subtree
CurrencyPostings ==
  {Posting(a, Amount(16, c)) : a \in {Acct_AB, Acct_ABC}, c \in {"USD", "EUR"}}
CurrencyOthers ==
  BalancesOf({Acct_AB}, {Amount(n, c) : n \in {0, 16}, c \in {"USD", "EUR"}})
    \cup OpensOf({Acct_ABC})

\* ----------------------------------------------------------------- actions
Init ==
  /\ entries = <<>>
  /\ pc = "input"
  /\ idx = 1
  /\ real_root = RealAccount
  /\ new_entries = <<>>
  /\ check_errors = <<>>

\* the caller builds the list of directives handed to check() (line 23)
Load(postings, others) ==
  /\ pc = "input"
  /\ Len(entries) < MaxLen
  /\ \E d \in others \cup TransactionsOf(postings, MaxPostings - PostingCount(entries)) :
       entries' = Append(entries, Entry(d, Len(entries) + 1))
  /\ UNCHANGED <<pc, idx, real_root, new_entries, check_errors>>

LoadTree == Load(TreePostings, TreeOthers)
LoadTolerance == Load(TolerancePostings, ToleranceOthers)
LoadCurrency == Load(CurrencyPostings, CurrencyOthers)

\* lines 46-61
Select ==
  /\ pc = "input"
  /\ real_root' = selection(entries)
  /\ pc' = "replay"
  /\ UNCHANGED <<entries, idx, new_entries, check_errors>>

\* lines 64-73, 112
ReplayTransaction ==
  /\ pc = "replay"
  /\ idx <= Len(entries)
  /\ entries[idx].type = "Transaction"
  /\ real_root' = apply_postings(real_root, entries[idx].postings)
  /\ new_entries' = Append(new_entries, entries[idx])
  /\ idx' = idx + 1
  /\ UNCHANGED <<entries, pc, check_errors>>

\* lines 75-112
ReplayBalance ==
  /\ pc = "replay"
  /\ idx <= Len(entries)
  /\ entries[idx].type = "Balance"
  /\ IF get(real_root, entries[idx].account) = None
     THEN /\ pc' = "AssertionError"
          /\ UNCHANGED <<idx, new_entries, check_errors>>
     ELSE /\ check_errors' = checked_errors(real_root, check_errors, entries[idx])
          /\ new_entries' = Append(new_entries, checked_entry(real_root, entries[idx]))
          /\ idx' = idx + 1
          /\ pc' = pc
  /\ UNCHANGED <<entries, real_root>>

\* lines 63-64, 75, 112: any other directive is passed through
ReplayOther ==
  /\ pc = "replay"
  /\ idx <= Len(entries)
  /\ entries[idx].type \notin {"Transaction", "Balance"}
  /\ new_entries' = Append(new_entries, entries[idx])
  /\ idx' = idx + 1
  /\ UNCHANGED <<entries, pc, real_root, check_errors>>

\* line 114
Return ==
  /\ pc = "replay"
  /\ idx > Len(entries)
  /\ pc' = "done"
  /\ UNCHANGED <<entries, idx, real_root, new_entries, check_errors>>

Check == Select \/ ReplayTransaction \/ ReplayBalance \/ ReplayOther \/ Return

Next == LoadTree \/ Check
NextTolerance == LoadTolerance \/ Check
NextCurrency == LoadCurrency \/ Check

Spec == Init /\ [][Next]_vars
SpecTolerance == Init /\ [][NextTolerance]_vars
SpecCurrency == Init /\ [][NextCurrency]_vars

\* the stepwise pass and the function agree
StepwiseIsCheck ==
  pc = "done" =>
    check(entries) = [new_entries |-> new_entries, check_errors |-> check_errors,
                      raised |-> FALSE]

\* ------------------------------------------------------- reference notions
\* account is sub or one of its descendants: sub, or sub followed by ':' ...
IsSubaccount(account, sub) == account = sub \/ startswith(account, sub \o <<":">>)

RECURSIVE PostedSum(_, _, _)
PostedSum(postings, account, currency) ==
  IF postings = <<>> THEN 0
  ELSE (IF /\ IsSubaccount(Head(postings).account, account)
           /\ Head(postings).position.currency = currency
        THEN Head(postings).position.number ELSE 0)
       + PostedSum(Tail(postings), account, currency)

RECURSIVE PostedBefore(_, _, _, _)
PostedBefore(es, i, account, currency) ==
  IF i <= 1 THEN 0
  ELSE (IF es[i - 1].type = "Transaction"
        THEN PostedSum(es[i - 1].postings, account, currency) ELSE 0)
       + PostedBefore(es, i - 1, account, currency)

\* the sum, in the assertion's currency, of the postings before position i to
\* the asserted account and its descendants
Accumulated(es, i) == PostedBefore(es, i, es[i].account, es[i].amount.currency)

Difference(es, i) == Accumulated(es, i) - es[i].amount.number

IsBalance(es, i) == es[i].type = "Balance"

Fails(es, i) == IsBalance(es, i) /\ abs(Difference(es, i)) > 15

Annotated(es, i) ==
  [es[i] EXCEPT !.diff_amount = Some(Amount(Difference(es, i), es[i].amount.currency))]

BalanceAt == pc = "replay" /\ idx <= Len(entries) /\ IsBalance(entries, idx)

\* ------------------------------------------------------------------ claims

\* C1: an assertion fails (one error, diff set) exactly when
\* |accumulated - expected| > 0.015; at exactly 0.015 on either side it passes
\* and the entry is left as it was.
C1_ToleranceIsStrict ==
  pc = "done" =>
    \A i \in 1..Len(entries) :
      IsBalance(entries, i) =>
        /\ Fails(entries, i) <=> new_entries[i].diff_amount # None
        /\ Fails(entries, i) <=> \E k \in 1..Len(check_errors) : check_errors[k].entry = entries[i]
        /\ ~Fails(entries, i) => new_entries[i] = entries[i]

C1_Witness ==
  /\ pc = "done"
  /\ \E i \in 1..Len(entries) :
       IsBalance(entries, i) /\ abs(Difference(entries, i)) = 15 /\ new_entries[i] = entries[i]
  /\ \E i \in 1..Len(entries) :
       IsBalance(entries, i) /\ abs(Difference(entries, i)) = 16 /\ new_entries[i] # entries[i]

\* C2: the amount compared at an assertion is the sum of the earlier postings,
\* in its currency, to its account and descendants; the diff written on a
\* failing assertion is that amount minus the expected one.
C2_AccumulatedIsSubtreeSum ==
  /\ (BalanceAt /\ get(real_root, entries[idx].account) # None) =>
       balance_amount(real_root, entries[idx])
         = Amount(Accumulated(entries, idx), entries[idx].amount.currency)
  /\ \A i \in 1..Len(new_entries) :
       (IsBalance(entries, i) /\ new_entries[i].diff_amount # None) =>
         new_entries[i].diff_amount
           = Some(Amount(Difference(entries, i), entries[i].amount.currency))

C2_Witness ==
  /\ pc = "done"
  /\ \E i \in 1..Len(entries), j \in 1..Len(entries) :
       /\ j < i
       /\ IsBalance(entries, i) /\ entries[i].account = Acct_AB
       /\ entries[j].type = "Transaction"
       /\ \E k \in 1..Len(entries[j].postings) : entries[j].postings[k].account = Acct_ABC
       /\ \E k \in 1..Len(entries[j].postings) : entries[j].postings[k].account = Acct_AB2
       /\ Accumulated(entries, i) = 16
  /\ \E i \in 1..Len(entries) :
       IsBalance(entries, i) /\ Difference(entries, i) = 16
         /\ new_entries[i].diff_amount = Some(Amount(16, "USD"))

\* C3: the output has one entry per input entry, in order: the input entry
\* itself, or for a failing assertion a copy with only the diff field set.
C3_OneToOne ==
  /\ pc = "done" => Len(new_entries) = Len(entries)
  /\ pc \in {"input", "replay"} => Len(new_entries) = idx - 1
  /\ \A i \in 1..Len(new_entries) :
       IF Fails(entries, i)
       THEN new_entries[i] = Annotated(entries, i) /\ new_entries[i].diff_amount # None
       ELSE new_entries[i] = entries[i]

C3_Witness ==
  /\ pc = "done"
  /\ Len(entries) = MaxLen
  /\ \E i \in 1..Len(entries) : Fails(entries, i) /\ new_entries[i] = Annotated(entries, i)
  /\ \E i \in 1..Len(entries) : IsBalance(entries, i) /\ ~Fails(entries, i)
  /\ \E i \in 1..Len(entries) : entries[i].type = "Transaction"

RECURSIVE FailingBefore(_, _)
FailingBefore(es, n) ==
  IF n = 0 THEN <<>>
  ELSE IF Fails(es, n) THEN Append(FailingBefore(es, n - 1), es[n])
       ELSE FailingBefore(es, n - 1)

\* C4: the errors are one per failing assertion, in input order, each with
\* the location of and a reference to the input assertion; a failure does not
\* stop the pass.
C4_ErrorsInOrder ==
  /\ Len(check_errors) = Len(FailingBefore(entries, Len(new_entries)))
  /\ \A k \in 1..Len(check_errors) :
       /\ check_errors[k].entry = FailingBefore(entries, Len(new_entries))[k]
       /\ check_errors[k].fileloc = check_errors[k].entry.fileloc
  /\ pc \in {"input", "replay"} => Len(new_entries) = idx - 1
  /\ pc = "done" => Len(new_entries) = Len(entries)

C4_Witness ==
  /\ pc = "done"
  /\ Len(entries) = 3
  /\ Fails(entries, 1)
  /\ entries[2].type = "Transaction"
  /\ Fails(entries, 3)
  /\ Len(check_errors) = 2
  /\ check_errors[1].entry = entries[1]
  /\ check_errors[2].entry = entries[3]

\* ascending or descending relation between accounts, by components
Related(a, b) == IsSubaccount(a, b) \/ IsSubaccount(b, a)

Unrelated(es, account) == \A a \in asserted_accounts(es) : ~Related(account, a)

\* the ledger without the postings for which Drop(posting) holds
Without(es, Drop(_)) ==
  [i \in 1..Len(es) |->
     IF es[i].type = "Transaction"
     THEN [es[i] EXCEPT !.postings = SelectSeq(@, LAMBDA p : ~Drop(p))]
     ELSE es[i]]

WithoutUnrelated(es) == Without(es, LAMBDA p : Unrelated(es, p.account))

BalancesOfOutput(out) == [i \in {j \in 1..Len(out) : out[j].type = "Balance"} |-> out[i]]

\* C5: postings to accounts unrelated to every asserted account change no
\* outcome, diff or error: the ledger and the ledger without them agree.
C5_UnrelatedPostingsIgnored ==
  pc = "done" =>
    LET other == check(WithoutUnrelated(entries))
    IN  /\ ~other.raised
        /\ other.check_errors = check_errors
        /\ BalancesOfOutput(other.new_entries) = BalancesOfOutput(new_entries)

C5_Witness ==
  /\ pc = "done"
  /\ Acct_AB \in asserted_accounts(entries)
  /\ Unrelated(entries, Acct_AB2)
  /\ \E j \in 1..Len(entries) :
       /\ entries[j].type = "Transaction"
       /\ \E k \in 1..Len(entries[j].postings) : entries[j].postings[k].account = Acct_AB2
       /\ \E i \in (j + 1)..Len(entries) : IsBalance(entries, i) /\ entries[i].account = Acct_AB
  /\ WithoutUnrelated(entries) # entries

WithoutCurrency(es, currency) == Without(es, LAMBDA p : p.position.currency = currency)

InCurrencyOtherThan(errors, currency) ==
  SelectSeq(errors, LAMBDA e : e.entry.amount.currency # currency)

\* C6: postings in another currency change neither the outcome nor the diff of
\* an assertion; with no posting in its own currency the accumulated amount
\* is zero.
C6_CurrenciesAreIsolated ==
  pc = "done" =>
    /\ \A c \in {"USD", "EUR"} :
         LET other == check(WithoutCurrency(entries, c))
         IN  /\ ~other.raised
             /\ InCurrencyOtherThan(other.check_errors, c) = InCurrencyOtherThan(check_errors, c)
             /\ \A i \in 1..Len(entries) :
                  (IsBalance(entries, i) /\ entries[i].amount.currency # c) =>
                    other.new_entries[i] = new_entries[i]
    /\ \A i \in 1..Len(entries) :
         (/\ IsBalance(entries, i)
          /\ \A j \in 1..(i - 1) :
               entries[j].type = "Transaction" =>
                 \A k \in 1..Len(entries[j].postings) :
                   \/ entries[j].postings[k].position.currency # entries[i].amount.currency
                   \/ ~IsSubaccount(entries[j].postings[k].account, entries[i].account))
         => new_entries[i] =
              IF abs(entries[i].amount.number) > 15
              THEN [entries[i] EXCEPT !.diff_amount =
                      Some(Amount(0 - entries[i].amount.number, entries[i].amount.currency))]
              ELSE entries[i]

C6_Witness ==
  /\ pc = "done"
  /\ \E i \in 1..Len(entries) :
       /\ IsBalance(entries, i)
       /\ entries[i].amount.currency = "USD"
       /\ PostedBefore(entries, i, entries[i].account, "EUR") # 0
       /\ PostedBefore(entries, i, entries[i].account, "USD") = 0
       /\ new_entries[i] = entries[i]
  /\ WithoutCurrency(entries, "EUR") # entries

\* C7: when no assertion fails the output is the input, and the pass applied
\* to the output gives the same output and no error.
C7_Idempotent ==
  (pc = "done" /\ check_errors = <<>>) =>
    /\ new_entries = entries
    /\ check(new_entries)
         = [new_entries |-> new_entries, check_errors |-> <<>>, raised |-> FALSE]

C7_Witness ==
  /\ pc = "done"
  /\ check_errors = <<>>
  /\ \E i \in 1..Len(entries) : IsBalance(entries, i) /\ Accumulated(entries, i) # 0

\* C8: in every error the value printed after 'expected' is the assertion's
\* amount, the value after 'accumulated' is the computed balance, and the
\* difference is accumulated - expected.
C8_MessageSlots ==
  \A k \in 1..Len(check_errors) :
    \A i \in 1..Len(entries) :
      check_errors[k].entry = entries[i] =>
        /\ check_errors[k].message.account = entries[i].account
        /\ check_errors[k].message.expected = entries[i].amount
        /\ check_errors[k].message.accumulated
             = Amount(Accumulated(entries, i), entries[i].amount.currency)
        /\ check_errors[k].message.difference
             = Amount(Difference(entries, i), entries[i].amount.currency)

\* a path of components is tracked: an asserted account, above one or below one
TrackedPath(es, path) ==
  \E a \in asserted_accounts(es) :
    \/ Len(path) <= Len(split(a)) /\ SubSeq(split(a), 1, Len(path)) = path
    \/ Len(split(a)) <= Len(path) /\ SubSeq(path, 1, Len(split(a))) = split(a)

\* C9: after Selection a non-root node exists exactly for the tracked paths
\* (asserted, ancestor of asserted, descendant of asserted by the ':'
\* delimiter), and for no other account of the ledger.
C9_NodesAreTracked ==
  pc # "input" =>
    /\ \A path \in DOMAIN real_root : path # <<>> => TrackedPath(entries, path)
    /\ \A a \in get_accounts(entries) :
         TrackedPath(entries, split(a)) <=> split(a) \in DOMAIN real_root

\* C10: Selection creates the node of every asserted account and nothing
\* removes it, so at every assertion the node exists, line 80 never raises, and
\* the pass returns only after it has processed every entry.
C10_NoMissingAccount ==
  /\ pc \in {"input", "replay", "done"}
  /\ BalanceAt => get(real_root, entries[idx].account) # None
  /\ \A a \in asserted_accounts(entries) : pc # "input" => get(real_root, a) # None
  /\ pc = "replay" => idx <= Len(entries) + 1
  /\ pc = "done" => idx = Len(entries) + 1 /\ Len(new_entries) = Len(entries)

C10_Witness ==
  /\ pc = "done"
  /\ Len(entries) = MaxLen
  /\ asserted_accounts(entries) = {Acct_ABC, Acct_AB2}
  /\ get_accounts(entries) = {Acct_ABC, Acct_AB2, Acct_A}

====
